---- MODULE Spec2Model ----
(***************************************************************************)
(* ansi_color.hpp: construction of ANSI escape literals (SGR colors, 8-bit *)
(* palette, 24-bit true color, hex parsing, OSC window title) and the      *)
(* emission gate (tty::state, emit_policy, operator<<, std::formatter).    *)
(* Bytes are modelled by their ASCII codes, buffers std::array<char, N> by *)
(* functions on 0..N-1.                                                    *)
(***************************************************************************)
EXTENDS Integers, Sequences, FiniteSets, TLC

VARIABLES
    ndebug,       \* the build: TRUE when NDEBUG is defined (assert compiled out)
    call,         \* the last builder operation and its arguments
    result,       \* what that operation left: status and the literal's buffer
    g_tty_state,  \* tty::g_tty_state: three policies and two cached flags
    env,          \* what isatty(fileno(stdout / stderr)) answers right now
    io            \* the last gate operation and the bytes the sink received

vars == <<ndebug, call, result, g_tty_state, env, io>>

(***************************************************************************)
(* Execution character set: the character literals the header uses.        *)
(***************************************************************************)
\* the ASCII digits and letters in code order
Digits == <<"0", "1", "2", "3", "4", "5", "6", "7", "8", "9">>
Upper ==
    <<"A", "B", "C", "D", "E", "F", "G", "H", "I", "J", "K", "L", "M",
      "N", "O", "P", "Q", "R", "S", "T", "U", "V", "W", "X", "Y", "Z">>
Lower ==
    <<"a", "b", "c", "d", "e", "f", "g", "h", "i", "j", "k", "l", "m",
      "n", "o", "p", "q", "r", "s", "t", "u", "v", "w", "x", "y", "z">>

IndexIn(seq, c) == CHOOSE i \in DOMAIN seq : seq[i] = c
Range(seq) == {seq[i] : i \in DOMAIN seq}

\* the code of a character literal: '0' is 48, 'A' is 65, 'a' is 97
CharCode ==
    [c \in Range(Digits) \cup Range(Upper) \cup Range(Lower) \cup {"#", ";", "[", "]"} |->
        CASE c \in Range(Digits) -> 47 + IndexIn(Digits, c)
          [] c \in Range(Upper) -> 64 + IndexIn(Upper, c)
          [] c \in Range(Lower) -> 96 + IndexIn(Lower, c)
          [] c = "#" -> 35
          [] c = ";" -> 59
          [] c = "[" -> 91
          [] c = "]" -> 93]

ESC == 27   \* '\x1b'
BEL == 7    \* '\x07'
NUL == 0    \* '\0'

Byte == 0..255

\* static_cast<uint8_t>(v)
uint8(v) == v % 256

(***************************************************************************)
(* std::array<char, N> under construction: the array, the write position   *)
(* and whether some store went to an index outside 0..N-1.                 *)
(***************************************************************************)
\* std::array<char, N> buf{}; int pos = 0;
ZeroBuf(N) == [a |-> [i \in 0..(N - 1) |-> NUL], pos |-> 0, oob |-> FALSE]

\* buf[i] = c  (operator[] is unchecked: an index >= N leaves the array)
Store(st, i, c) ==
    IF i \in DOMAIN st.a
    THEN [st EXCEPT !.a[i] = c]
    ELSE [st EXCEPT !.oob = TRUE]

\* buf[pos++] = c
Put(st, c) == [Store(st, st.pos, c) EXCEPT !.pos = @ + 1]

(***************************************************************************)
(* detail::int_to_chars                                                    *)
(***************************************************************************)
RECURSIVE digits(_)
digits(v) == IF v >= 10 THEN 1 + digits(v \div 10) ELSE 1

RECURSIVE int_to_chars_loop(_, _, _, _)
int_to_chars_loop(value, st, out, i) ==
    IF i < 0
    THEN st
    ELSE int_to_chars_loop(value \div 10,
                           Store(st, out + i, CharCode["0"] + (value % 10)),
                           out, i - 1)

\* A conversion that pads every number to three digits.
int_to_chars_padded(value, st) ==
    [st |-> int_to_chars_loop(value, st, st.pos, 2), len |-> 3]

\* int_to_chars(value, buf.data() + pos): the digits stored, the length returned
int_to_chars(value, st) ==
    [st |-> int_to_chars_loop(value, st, st.pos, digits(value) - 1),
     len |-> digits(value)]

\* pos += detail::int_to_chars(v, buf.data() + pos)
AppendInt(st, v) ==
    LET r == int_to_chars(v, st) IN [r.st EXCEPT !.pos = @ + r.len]

(***************************************************************************)
(* detail::make_escape: ESC, Introducer, the payload, Finisher, NUL        *)
(***************************************************************************)
make_escape_open(N, Introducer) == Put(Put(ZeroBuf(N), ESC), Introducer)

make_escape_close(st, Finisher) ==
    LET s == Put(st, Finisher) IN Store(s, s.pos, NUL)

\* AnsiLiteral<N>::to_view(): the bytes up to the first NUL (string_view from
\* a const char*); a buffer holding no NUL is read to its end.
c_strlen(a) ==
    LET Z == {i \in DOMAIN a : a[i] = NUL}
    IN  IF Z = {} THEN Cardinality(DOMAIN a)
        ELSE CHOOSE i \in Z : \A j \in Z : i <= j

to_view(a) == [i \in 1..c_strlen(a) |-> a[i - 1]]

(***************************************************************************)
(* csi::gen_ansi and sgr::Code, sgr::Color4                                *)
(***************************************************************************)
foreground == 38   \* sgr::target::foreground
background == 48   \* sgr::target::background
target == {foreground, background}

CodeN == 16      \* template <int N = 16> gen_ansi, Code, Color8
Color24N == 32   \* template <target t, int N = 32> Color24, make_escape's default
TitleN == 128    \* template <int N = 128> Title
ClearN == 8      \* gen_ansi<8>(2, 'J')

\* the finishers the assert of csi::gen_ansi admits
ValidFinisher ==
    {CharCode[c] : c \in {"m", "J", "K", "A", "B", "C", "D", "H", "f"}}

\* csi::gen_ansi<N>(v, F) once its assert has passed
csi_gen_ansi(N, v, F) ==
    make_escape_close(AppendInt(make_escape_open(N, CharCode["["]), v), F)

\* sgr::Code<16>(v)
Code(v) == csi_gen_ansi(CodeN, v, CharCode["m"]).a

\* enum { base_c = static_cast<int>(t) - 8, bright_c = base_c + 60 }
base_c(t) == t - 8
bright_c(t) == base_c(t) + 60

\* the members of Color4<t> in declaration order: black .. white are 0 .. 7
Color4Names ==
    <<"black", "red", "green", "yellow", "blue", "magenta", "cyan", "white">>

\* A table whose bright colors start at the fill range (base_c + 10).
Color4_code_shifted(t, bright, c) == (IF bright THEN base_c(t) + 10 ELSE base_c(t)) + c

\* Color4<t>::<name> / Color4<t>::bright_<name> = Code(base_c + c) / Code(bright_c + c)
Color4_code(t, bright, c) == (IF bright THEN bright_c(t) ELSE base_c(t)) + c

Color4(t, bright, c) == Code(Color4_code(t, bright, c))

\* Color4<t>::preset = Code(base_c + 9)
Color4_preset(t) == Code(base_c(t) + 9)

\* sgr::reset, sgr::style::*, csi::clear
reset == Code(0)
style ==
    [n \in {"bold", "faint", "italic", "underline", "blink", "reverse", "hidden",
            "strike"} |->
        Code(CASE n = "bold" -> 1 [] n = "faint" -> 2 [] n = "italic" -> 3
               [] n = "underline" -> 4 [] n = "blink" -> 5 [] n = "reverse" -> 7
               [] n = "hidden" -> 8 [] n = "strike" -> 9)]
clear == csi_gen_ansi(ClearN, 2, CharCode["J"]).a

(***************************************************************************)
(* sgr::Color8: the 256 sequences are generated once and selected by index *)
(***************************************************************************)
Color8_gen_ansi(t, i) ==
    LET s0 == make_escape_open(CodeN, CharCode["["])
        s1 == AppendInt(s0, t)
        s2 == Put(Put(Put(s1, CharCode[";"]), CharCode["5"]), CharCode[";"])
        s3 == AppendInt(s2, i)
    IN  make_escape_close(s3, CharCode["m"]).a

palette_lit256 == [t \in target |-> [i \in 0..255 |-> Color8_gen_ansi(t, i)]]

\* A constructor that selects the entry after the requested one.
Color8_next(t, i) == palette_lit256[t][(i + 1) % 256]

\* Color8(uint8_t i) : AnsiLiteral<N>(palette_lit256[i]);  Color8::at(i) = Color8{ i }
Color8(t, i) == palette_lit256[t][i]
Color8_at(t, i) == Color8(t, i)

(***************************************************************************)
(* sgr::Color24                                                            *)
(***************************************************************************)
\* Color24::gen_ansi(red, green, blue)
Color24_gen_ansi(t, red, green, blue) ==
    LET s0 == make_escape_open(Color24N, CharCode["["])
        s1 == AppendInt(s0, t)
        s2 == Put(Put(Put(s1, CharCode[";"]), CharCode["2"]), CharCode[";"])
        s3 == Put(AppendInt(s2, red), CharCode[";"])
        s4 == Put(AppendInt(s3, green), CharCode[";"])
        s5 == AppendInt(s4, blue)
    IN  make_escape_close(s5, CharCode["m"]).a

\* Color24(uint8_t r, uint8_t g, uint8_t b)
Color24(t, r, g, b) == Color24_gen_ansi(t, r, g, b)

\* A digit reader that goes on counting past 'F' and 'f': 'G' is 16.
hex_digit_any_letter(c) ==
    IF CharCode["0"] <= c /\ c <= CharCode["9"] THEN c - CharCode["0"]
    ELSE IF CharCode["a"] <= c /\ c <= CharCode["z"] THEN 10 + (c - CharCode["a"])
    ELSE IF CharCode["A"] <= c /\ c <= CharCode["Z"] THEN 10 + (c - CharCode["A"])
    ELSE 0

\* A digit reader that knows only lower-case letters.
hex_digit_lower(c) ==
    IF CharCode["0"] <= c /\ c <= CharCode["9"] THEN c - CharCode["0"]
    ELSE IF CharCode["a"] <= c /\ c <= CharCode["f"] THEN 10 + (c - CharCode["a"])
    ELSE 0

\* the lambda hex_digit of Color24::parse
hex_digit(c) ==
    IF CharCode["0"] <= c /\ c <= CharCode["9"] THEN c - CharCode["0"]
    ELSE IF CharCode["a"] <= c /\ c <= CharCode["f"] THEN 10 + (c - CharCode["a"])
    ELSE IF CharCode["A"] <= c /\ c <= CharCode["F"] THEN 10 + (c - CharCode["A"])
    ELSE 0

\* str[k] of a view of len bytes: past is the byte that follows the view
CharAt(str, k, past) == IF k < Len(str) THEN str[k + 1] ELSE past

\* Color24::parse(str, len); nd: the build defines NDEBUG, so assert(e) is ((void)0)
Color24_parse(t, str, len, past, nd) ==
    IF ~nd /\ CharAt(str, 0, past) # CharCode["#"]
    THEN [status |-> "assert_failed", value |-> <<>>]
    ELSE IF len = 7
    THEN [status |-> "ok",
          value |-> Color24(t, uint8(hex_digit(str[2]) * 16 + hex_digit(str[3])),
                               uint8(hex_digit(str[4]) * 16 + hex_digit(str[5])),
                               uint8(hex_digit(str[6]) * 16 + hex_digit(str[7])))]
    ELSE IF len = 4
    THEN [status |-> "ok",
          value |-> Color24(t, uint8(hex_digit(str[2]) * 17),
                               uint8(hex_digit(str[3]) * 17),
                               uint8(hex_digit(str[4]) * 17))]
    ELSE IF ~nd
    THEN [status |-> "assert_failed", value |-> <<>>]
    ELSE [status |-> "ok", value |-> Color24(t, 0, 0, 0)]

(***************************************************************************)
(* osc::Title                                                              *)
(***************************************************************************)
\* for (size_t i = 0; i < t.size(); i++) buf[pos++] = t[i];
\* t[i] goes to index pos + i; the stores at an index >= N leave the array
Title_copy(st, txt) ==
    [a |-> [j \in DOMAIN st.a |->
                IF st.pos <= j /\ j < st.pos + Len(txt)
                THEN txt[j - st.pos + 1] ELSE st.a[j]],
     pos |-> st.pos + Len(txt),
     oob |-> st.oob \/ (\E i \in 0..(Len(txt) - 1) : st.pos + i \notin DOMAIN st.a)]

\* Title<N>::gen_ansi(t): the construction state, stores outside the array included
Title_gen_ansi(N, txt) ==
    LET s0 == make_escape_open(N, CharCode["]"])
        s1 == Put(Put(s0, CharCode["2"]), CharCode[";"])
        s2 == Title_copy(s1, txt)
    IN  make_escape_close(s2, BEL)

\* template <size_t L> requires (L < N - 4), L the array size of the literal
Title_literal_admitted(N, L) == L < N - 4

(***************************************************************************)
(* tty: the policy record and the emission decision                        *)
(***************************************************************************)
policy == {"force", "never", "auto_"}

\* what the environment can answer for a descriptor: a terminal, not a
\* terminal, or a failed query (isatty returns 0 and sets errno)
EnvAnswer == {"tty", "notty", "error"}
isatty(answer) == IF answer = "tty" THEN 1 ELSE 0

\* A refresh that copies the stdout answer into both flags.
refresh_stdout_only(s, e) ==
    [s EXCEPT !.stdout_is_tty = (isatty(e.stdout) # 0),
              !.stderr_is_tty = (isatty(e.stdout) # 0)]

\* state::refresh()
refresh(s, e) ==
    [s EXCEPT !.stdout_is_tty = (isatty(e.stdout) # 0),
              !.stderr_is_tty = (isatty(e.stderr) # 0)]

\* state::state(): the member initialisers, then refresh()
state(e) ==
    refresh([stdout_policy |-> "auto_", stderr_policy |-> "auto_",
             stream_policy |-> "auto_",
             stdout_is_tty |-> FALSE, stderr_is_tty |-> FALSE], e)

\* A rule under which auto always emits.
emit_policy_auto_on(p, is_tty) == p = "force" \/ p = "auto_"

emit_policy(p, is_tty) == p = "force" \/ (p = "auto_" /\ is_tty)

\* A formatter gate that reads the stdout policy.
emit_ansi_stdout(s) == emit_policy(s.stdout_policy, s.stdout_is_tty)

\* tty::emit_ansi()
emit_ansi(s) == emit_policy(s.stream_policy, s.stdout_is_tty)

\* A gate that hands unknown streams the stdout flag.
emit_ansi_os_shared(s, os) ==
    IF os = "cout" THEN emit_policy(s.stdout_policy, s.stdout_is_tty)
    ELSE IF os = "cerr" THEN emit_policy(s.stderr_policy, s.stderr_is_tty)
    ELSE emit_policy(s.stream_policy, s.stdout_is_tty)

\* tty::emit_ansi(std::ostream& os): os is std::cout, std::cerr or another stream
emit_ansi_os(s, os) ==
    IF os = "cout" THEN emit_policy(s.stdout_policy, s.stdout_is_tty)
    ELSE IF os = "cerr" THEN emit_policy(s.stderr_policy, s.stderr_is_tty)
    ELSE emit_policy(s.stream_policy, FALSE)

Ostream == {"cout", "cerr", "other"}

\* operator<<(os, ao): the bytes os receives
insert(s, os, ao) == IF emit_ansi_os(s, os) THEN to_view(ao) ELSE <<>>

\* the format specs of a replacement field: {} {:f} {:n} {:a} and one the
\* formatter does not know, {:x}
FormatSpec == {<<>>, <<"f">>, <<"n">>, <<"a">>, <<"x">>}

\* formatter::parse: the mode it leaves and the rest of the spec it returns
formatter_parse(spec) ==
    IF spec # <<>> /\ Head(spec) \in {"f", "n", "a"}
    THEN [mode |-> Head(spec), rest |-> Tail(spec)]
    ELSE [mode |-> "a", rest |-> spec]

\* formatter::format: the bytes appended to the output
formatter_format(s, mode, ao) ==
    CASE mode = "n" -> <<>>
      [] mode = "f" -> to_view(ao)
      [] OTHER -> IF emit_ansi(s) THEN to_view(ao) ELSE <<>>

(***************************************************************************)
(* Inputs                                                                  *)
(***************************************************************************)
MaxShortLen == 3   \* every string over ProbeAlphabet up to this length is tried
MaxHexLen == 9     \* longest string handed to the hex constructors
MaxTitleLen == 125 \* longest window title handed to Title

\* one-, two- and three-digit channel values
ChannelSamples == {0, 10, 255}

\* one channel sweeps 0..255 while the other two take the samples
RGBInputs ==
    {<<r, g, b>> : r \in Byte, g \in ChannelSamples, b \in ChannelSamples}
    \cup {<<r, g, b>> : r \in ChannelSamples, g \in Byte, b \in ChannelSamples}
    \cup {<<r, g, b>> : r \in ChannelSamples, g \in ChannelSamples, b \in Byte}

HexDigitChars ==
    (CharCode["0"]..CharCode["9"]) \cup (CharCode["a"]..CharCode["f"])
    \cup (CharCode["A"]..CharCode["F"])

\* the characters right outside the three digit ranges
NonHexChars ==
    {CharCode["0"] - 1, CharCode["9"] + 1, CharCode["a"] - 1, CharCode["g"],
     CharCode["A"] - 1, CharCode["G"], NUL, 255}

HexCharInputs == HexDigitChars \cup NonHexChars
HexCharSamples == {CharCode["0"], CharCode["9"], CharCode["a"], CharCode["F"]}
HexFill == {CharCode["0"], CharCode["F"]}

\* "#RGB": one position sweeps every character, the others take the samples
Hex4Inputs ==
    {<<CharCode["#"], x, y, z>> : x \in HexCharInputs, y \in HexFill, z \in HexFill}
    \cup {<<CharCode["#"], x, y, z>> : x \in HexFill, y \in HexCharInputs, z \in HexFill}
    \cup {<<CharCode["#"], x, y, z>> : x \in HexFill, y \in HexFill, z \in HexCharInputs}

\* the two characters of one channel
HexPairInputs ==
    {<<h, l>> : h \in HexCharInputs, l \in HexCharSamples}
    \cup {<<h, l>> : h \in HexCharSamples, l \in HexCharInputs}
    \cup {<<h, l>> : h \in NonHexChars, l \in NonHexChars}
HexPairFill == {<<CharCode["0"], CharCode["0"]>>, <<CharCode["f"], CharCode["F"]>>}

\* "#RRGGBB": one channel sweeps the pairs, the others take the fill pairs
Hex7Inputs ==
    {<<CharCode["#"]>> \o p \o q \o r : p \in HexPairInputs, q \in HexPairFill, r \in HexPairFill}
    \cup {<<CharCode["#"]>> \o p \o q \o r : p \in HexPairFill, q \in HexPairInputs, r \in HexPairFill}
    \cup {<<CharCode["#"]>> \o p \o q \o r : p \in HexPairFill, q \in HexPairFill, r \in HexPairInputs}

ProbeAlphabet == {CharCode["#"], CharCode["1"], CharCode["n"]}

\* every string over the probe alphabet of length 0..MaxShortLen
ShortInputs ==
    UNION {[1..n -> ProbeAlphabet] : n \in 0..MaxShortLen}

\* strings of length up to MaxHexLen: a first character, then '1's
LongInputs ==
    {[i \in 1..n |-> IF i = 1 THEN c ELSE CharCode["1"]] :
        c \in ProbeAlphabet, n \in 1..MaxHexLen}

HexInputs == Hex4Inputs \cup Hex7Inputs \cup ShortInputs \cup LongInputs

\* the byte found right after a string view's last character
PastEnd == {NUL, CharCode["#"]}

TitleAlphabet == <<CharCode["T"], CharCode["t"], CharCode["x"]>>
TitleInputs ==
    {[i \in 1..n |-> TitleAlphabet[((i + k) % 3) + 1]] : n \in 0..MaxTitleLen, k \in 0..2}

\* the escape literals handed to the gate
GateLiterals ==
    {reset, Color4(foreground, FALSE, 1), Color8(background, 255),
     Color24(foreground, 255, 0, 0)}

(***************************************************************************)
(* State after construction                                                *)
(***************************************************************************)
Call(op, t, args) == [op |-> op, t |-> t, args |-> args]
NoCall == Call("none", 0, <<>>)
NoResult == [status |-> "none", path |-> "-", value |-> <<>>]
Created == [op |-> "create", os |-> "-", spec |-> <<>>, ao |-> <<>>, bytes |-> <<>>]

\* the constructions a program is about to evaluate
PendingCall ==
    \/ \E v \in {0, 2, 9, 31, 107}, F \in ValidFinisher \cup {CharCode["x"]} :
          call = Call("gen_ansi", 0, <<v, F>>)
    \/ \E t \in target, bright \in BOOLEAN, c \in 0..7 :
          call = Call("Color4", t, <<bright, c>>)
    \/ \E t \in target : call = Call("Color4::preset", t, <<>>)
    \/ \E t \in target, i \in Byte : call = Call("Color8", t, <<i>>)
    \/ \E t \in target, i \in Byte : call = Call("Color8::at", t, <<i>>)
    \/ \E t \in target, c \in RGBInputs : call = Call("Color24", t, c)
    \/ \E t \in target, hex \in HexInputs : call = Call("Color24(literal)", t, <<hex>>)
    \/ \E t \in target, hex \in HexInputs : call = Call("Color24(string_view)", t, <<hex>>)
    \/ \E t \in target, hex \in HexInputs : call = Call("_fg/_bg", t, <<hex>>)
    \/ \E txt \in TitleInputs : call = Call("Title(string_view)", 0, <<txt>>)
    \/ \E txt \in TitleInputs : call = Call("Title(literal)", 0, <<txt>>)

\* a program about to evaluate one construction, in either build; the
\* builders do not read the gate, so its descriptors are taken redirected
InitBuild ==
    /\ ndebug \in BOOLEAN
    /\ PendingCall
    /\ result = NoResult
    /\ env = [stdout |-> "notty", stderr |-> "notty"]
    /\ g_tty_state = state(env)
    /\ io = Created

\* a program right after g_tty_state is constructed, in any environment;
\* the gate has no assert that can fail, so one build is enough
InitGate ==
    /\ ndebug = FALSE
    /\ call = NoCall
    /\ result = NoResult
    /\ env \in [stdout : EnvAnswer, stderr : EnvAnswer]
    /\ g_tty_state = state(env)
    /\ io = Created

GateUnchanged == UNCHANGED <<g_tty_state, env, io>>
BuildUnchanged == UNCHANGED <<ndebug, call, result>>

(***************************************************************************)
(* Builder operations: each evaluates the pending call                     *)
(***************************************************************************)
Pending(op) == call.op = op /\ result = NoResult

Built(status, path, value) ==
    /\ result' = [status |-> status, path |-> path, value |-> value]
    /\ GateUnchanged
    /\ UNCHANGED <<ndebug, call>>

\* csi::gen_ansi(v, F): the assert on the finisher, then the sequence
GenAnsi ==
    /\ Pending("gen_ansi")
    /\ LET v == call.args[1]
           F == call.args[2]
       IN  IF ~ndebug /\ F \notin ValidFinisher
           THEN Built("assert_failed", "-", <<>>)
           ELSE Built("ok", "-", csi_gen_ansi(CodeN, v, F).a)

\* fg4::red, bg4::bright_yellow, ...
UseColor4 ==
    /\ Pending("Color4")
    /\ Built("ok", "consteval", Color4(call.t, call.args[1], call.args[2]))

\* fg4::preset, bg4::preset
UseColor4Preset ==
    /\ Pending("Color4::preset")
    /\ Built("ok", "consteval", Color4_preset(call.t))

\* fg8(i), bg8(i)
NewColor8 ==
    /\ Pending("Color8")
    /\ Built("ok", "-", Color8(call.t, call.args[1]))

\* fg8::at(i), bg8::at(i)
NewColor8At ==
    /\ Pending("Color8::at")
    /\ Built("ok", "-", Color8_at(call.t, call.args[1]))

\* fg24(r, g, b), bg24(r, g, b)
NewColor24 ==
    /\ Pending("Color24")
    /\ Built("ok", "-", Color24(call.t, call.args[1], call.args[2], call.args[3]))

\* fg24("..."): a literal of array size 8 or 5 selects the consteval
\* constructor; any other literal converts to std::string_view and selects
\* the run-time constructor. Both call parse(hex, length). An assert that
\* fails during constant evaluation rejects the program.
NewColor24Literal ==
    /\ Pending("Color24(literal)")
    /\ LET hex == call.args[1]
           r == Color24_parse(call.t, hex, Len(hex), NUL, ndebug)
       IN  Built(r.status,
                 IF Len(hex) + 1 \in {8, 5} THEN "consteval" ELSE "runtime",
                 r.value)

\* fg24(std::string_view): parse(hex.data(), hex.size())
NewColor24View ==
    /\ Pending("Color24(string_view)")
    /\ \E past \in PastEnd :
          LET hex == call.args[1]
              r == Color24_parse(call.t, hex, Len(hex), past, ndebug)
          IN  Built(r.status, "runtime", r.value)

\* "..."_fg, "..."_bg: foreground24::parse(str, len), background24::parse(str, len)
UserLiteral ==
    /\ Pending("_fg/_bg")
    /\ LET hex == call.args[1]
           r == Color24_parse(call.t, hex, Len(hex), NUL, ndebug)
       IN  Built(r.status, "consteval", r.value)

\* what a build can make of a store outside the array: the program stops,
\* or it goes on with the array filled to its last element
UBOutcome == {"ub_crash", "ub_overrun"}

\* explicit Title(std::string_view txt): gen_ansi(txt), no length check
TitleFromView(txt) ==
    LET st == Title_gen_ansi(TitleN, txt)
    IN  IF st.oob
        THEN \E o \in UBOutcome :
                Built(o, "runtime", IF o = "ub_crash" THEN <<>> ELSE st.a)
        ELSE Built("ok", "runtime", st.a)

\* osc::Title(std::string_view)
NewTitleView ==
    /\ Pending("Title(string_view)")
    /\ TitleFromView(call.args[1])

\* osc::Title("..."): the consteval constructor when the literal's array
\* size L satisfies L < N - 4; a longer literal converts to
\* std::string_view and selects the run-time constructor
NewTitleLiteral ==
    /\ Pending("Title(literal)")
    /\ LET txt == call.args[1]
       IN  IF Title_literal_admitted(TitleN, Len(txt) + 1)
           THEN Built("ok", "consteval", Title_gen_ansi(TitleN, txt).a)
           ELSE TitleFromView(txt)

(***************************************************************************)
(* Gate operations                                                         *)
(***************************************************************************)
\* tty::g_tty_state.<which> = p
SetPolicy(which, p) ==
    /\ g_tty_state' = [g_tty_state EXCEPT ![which] = p]
    /\ io' = [op |-> "set_policy", os |-> "-", spec |-> <<>>, ao |-> <<>>, bytes |-> <<>>]
    /\ UNCHANGED env
    /\ BuildUnchanged

\* the descriptor is redirected, reattached or closed outside the program
EnvChange(fd, a) ==
    /\ env[fd] # a
    /\ env' = [env EXCEPT ![fd] = a]
    /\ io' = [op |-> "env", os |-> "-", spec |-> <<>>, ao |-> <<>>, bytes |-> <<>>]
    /\ UNCHANGED g_tty_state
    /\ BuildUnchanged

\* refresh_is_tty()
refresh_is_tty ==
    /\ g_tty_state' = refresh(g_tty_state, env)
    /\ io' = [op |-> "refresh", os |-> "-", spec |-> <<>>, ao |-> <<>>, bytes |-> <<>>]
    /\ UNCHANGED env
    /\ BuildUnchanged

\* os << ao
Insert(os, ao) ==
    /\ io' = [op |-> "insert", os |-> os, spec |-> <<>>, ao |-> ao,
              bytes |-> insert(g_tty_state, os, ao)]
    /\ UNCHANGED <<g_tty_state, env>>
    /\ BuildUnchanged

\* std::format("{:spec}", ao): parse, then format; a spec parse does not
\* consume to the closing brace is a format error and nothing is produced
Format(spec, ao) ==
    LET p == formatter_parse(spec)
    IN  /\ io' = [op |-> IF p.rest = <<>> THEN "format" ELSE "format_error",
                  os |-> "-", spec |-> spec, ao |-> ao,
                  bytes |-> IF p.rest = <<>>
                            THEN formatter_format(g_tty_state, p.mode, ao)
                            ELSE <<>>]
        /\ UNCHANGED <<g_tty_state, env>>
        /\ BuildUnchanged

(***************************************************************************)
(* Specifications                                                          *)
(***************************************************************************)
NextBuild ==
    \/ GenAnsi
    \/ UseColor4
    \/ UseColor4Preset
    \/ NewColor8
    \/ NewColor8At
    \/ NewColor24
    \/ NewColor24Literal
    \/ NewColor24View
    \/ UserLiteral
    \/ NewTitleView
    \/ NewTitleLiteral

NextGate ==
    \/ \E which \in {"stdout_policy", "stderr_policy", "stream_policy"}, p \in policy :
          SetPolicy(which, p)
    \/ \E fd \in {"stdout", "stderr"}, a \in EnvAnswer : EnvChange(fd, a)
    \/ refresh_is_tty
    \/ \E os \in Ostream, ao \in GateLiterals : Insert(os, ao)
    \/ \E spec \in FormatSpec, ao \in GateLiterals : Format(spec, ao)

SpecBuild == InitBuild /\ [][NextBuild]_vars
SpecGate == InitGate /\ [][NextGate]_vars

(***************************************************************************)
(* Properties of the emission gate (SpecGate)                              *)
(***************************************************************************)
\* the decision rule as the specification words it
RuleEmits(p, interactive) ==
    IF p = "never" THEN FALSE
    ELSE IF p = "force" THEN TRUE
    ELSE interactive

PolicyOf(os) ==
    IF os = "cout" THEN g_tty_state.stdout_policy ELSE g_tty_state.stderr_policy
FlagOf(os) ==
    IF os = "cout" THEN g_tty_state.stdout_is_tty ELSE g_tty_state.stderr_is_tty

\* C1: an insertion into std::cout or std::cerr writes the literal's bytes
\* iff that destination's own policy is force, or is auto with that
\* destination's cached flag true; otherwise the destination receives no
\* bytes. Only the destination's own policy and flag enter the decision.
C1_InsertStdStreams ==
    (io.op = "insert" /\ io.os \in {"cout", "cerr"}) =>
        IF RuleEmits(PolicyOf(io.os), FlagOf(io.os))
        THEN io.bytes = to_view(io.ao) /\ io.bytes # <<>>
        ELSE io.bytes = <<>>

\* cerr emits on auto with its own flag set while cout is set to never
C1_Witness ==
    /\ io.op = "insert" /\ io.os = "cerr"
    /\ g_tty_state.stderr_policy = "auto_" /\ g_tty_state.stderr_is_tty
    /\ g_tty_state.stdout_policy = "never" /\ ~g_tty_state.stdout_is_tty
    /\ io.ao = reset
    /\ io.bytes = <<ESC, CharCode["["], CharCode["0"], CharCode["m"]>>

\* the mode a replacement field asks for: f, n, a, or a when it names none
ModeOf(spec) == IF spec = <<>> THEN "a" ELSE Head(spec)

\* C2 as stated: in mode auto the formatter outputs the sequence exactly when
\* the destination is flagged interactive, whatever the override policies.
C2_FormatIgnoresPolicies ==
    io.op = "format" =>
        CASE ModeOf(io.spec) = "f" -> io.bytes = to_view(io.ao) /\ io.bytes # <<>>
          [] ModeOf(io.spec) = "n" -> io.bytes = <<>>
          [] OTHER ->
                IF g_tty_state.stdout_is_tty
                THEN io.bytes = to_view(io.ao) /\ io.bytes # <<>>
                ELSE io.bytes = <<>>

\* C2 amended: mode f always outputs the sequence and mode n never does; mode
\* auto (explicit or default) outputs it exactly when the generic stream
\* policy is force, or is auto with the cached stdout flag true. The stdout
\* and stderr policies and the stderr flag never enter the decision.
C2_FormatFollowsStreamPolicy ==
    io.op = "format" =>
        CASE ModeOf(io.spec) = "f" -> io.bytes = to_view(io.ao) /\ io.bytes # <<>>
          [] ModeOf(io.spec) = "n" -> io.bytes = <<>>
          [] OTHER ->
                IF RuleEmits(g_tty_state.stream_policy, g_tty_state.stdout_is_tty)
                THEN io.bytes = to_view(io.ao) /\ io.bytes # <<>>
                ELSE io.bytes = <<>>

\* {:a} outputs on a redirected stdout because the generic policy is force,
\* although the stdout policy is never
C2_Witness ==
    /\ io.op = "format" /\ io.spec = <<"a">>
    /\ g_tty_state.stream_policy = "force"
    /\ g_tty_state.stdout_policy = "never"
    /\ ~g_tty_state.stdout_is_tty
    /\ io.ao = reset
    /\ io.bytes = <<ESC, CharCode["["], CharCode["0"], CharCode["m"]>>

\* C3: an insertion into a stream that is neither std::cout nor std::cerr
\* writes the bytes iff the generic stream policy is force; on auto or never
\* nothing is written, whatever the cached flags and the other policies.
C3_InsertOtherStream ==
    (io.op = "insert" /\ io.os = "other") =>
        IF g_tty_state.stream_policy = "force"
        THEN io.bytes = to_view(io.ao) /\ io.bytes # <<>>
        ELSE io.bytes = <<>>

\* nothing is written on auto although both flags are set and cout is forced
C3_Witness ==
    /\ io.op = "insert" /\ io.os = "other"
    /\ g_tty_state.stream_policy = "auto_"
    /\ g_tty_state.stdout_is_tty /\ g_tty_state.stderr_is_tty
    /\ g_tty_state.stdout_policy = "force"
    /\ io.ao = reset
    /\ io.bytes = <<>>

Flags(s) == <<s.stdout_is_tty, s.stderr_is_tty>>
Policies(s) == <<s.stdout_policy, s.stderr_policy, s.stream_policy>>
Interactive(e) == <<e.stdout = "tty", e.stderr = "tty">>

\* C10: right after creation and after every refresh_is_tty() both cached
\* flags equal the environment's current answers, a failed query counting as
\* non-interactive; creation leaves the three policies at auto; the flags
\* change in no step but refresh_is_tty(), which leaves the policies as they
\* were; an insertion in between decides by the cached flag.
C10_FlagsCached ==
    /\ [](io.op \in {"create", "refresh"} => Flags(g_tty_state) = Interactive(env))
    /\ [](io.op = "create" => Policies(g_tty_state) = <<"auto_", "auto_", "auto_">>)
    /\ [][Flags(g_tty_state)' # Flags(g_tty_state) => io'.op = "refresh"]_vars
    /\ [][io'.op = "refresh" => Policies(g_tty_state)' = Policies(g_tty_state)]_vars
    /\ []((io.op = "insert" /\ io.os = "cout" /\ g_tty_state.stdout_policy = "auto_")
            => ((io.bytes # <<>>) <=> g_tty_state.stdout_is_tty))

\* stdout has been reattached to a terminal after creation and not yet
\* refreshed: the insertion still decides by the cached flag and writes nothing
C10_Witness ==
    /\ io.op = "insert" /\ io.os = "cout"
    /\ g_tty_state.stdout_policy = "auto_"
    /\ env.stdout = "tty" /\ ~g_tty_state.stdout_is_tty
    /\ io.bytes = <<>>

(***************************************************************************)
(* Properties of the builders (SpecBuild)                                  *)
(***************************************************************************)
Done == result.status # "none"

\* the decimal numeral of n in 0..999, no leading zeros, as character codes
Decimal(n) ==
    LET d(k) == CharCode[Digits[k + 1]]
    IN  IF n < 10 THEN <<d(n)>>
        ELSE IF n < 100 THEN <<d(n \div 10), d(n % 10)>>
        ELSE <<d(n \div 100), d((n \div 10) % 10), d(n % 10)>>

\* "38" for the text role, "48" for the fill role
RoleText(t) ==
    IF t = foreground THEN <<CharCode["3"], CharCode["8"]>>
    ELSE <<CharCode["4"], CharCode["8"]>>

\* ESC [ 38|48 ; 2 ; R ; G ; B m
Sequence24(t, R, G, B) ==
    <<ESC, CharCode["["]>> \o RoleText(t) \o <<CharCode[";"], CharCode["2"], CharCode[";"]>>
    \o Decimal(R) \o <<CharCode[";"]>> \o Decimal(G) \o <<CharCode[";"]>> \o Decimal(B)
    \o <<CharCode["m"]>>

\* ESC [ 38|48 ; 5 ; idx m
Sequence8(t, idx) ==
    <<ESC, CharCode["["]>> \o RoleText(t) \o <<CharCode[";"], CharCode["5"], CharCode[";"]>>
    \o Decimal(idx) \o <<CharCode["m"]>>

\* ESC [ code m
SequenceCode(code) == <<ESC, CharCode["["]>> \o Decimal(code) \o <<CharCode["m"]>>

\* the array has N elements and holds exactly seq followed by a NUL
Holds(value, N, seq) ==
    /\ DOMAIN value = 0..(N - 1)
    /\ Len(seq) < N
    /\ \A i \in 1..Len(seq) : value[i - 1] = seq[i]
    /\ value[Len(seq)] = NUL

\* C4 as stated: constructing a Title never stores at an index >= N, and
\* every constructed Title holds ESC ] 2 ; <text> BEL and a NUL inside its
\* N bytes, <text> being the title or a truncation of it.
C4_TitleChecked ==
    (call.op \in {"Title(string_view)", "Title(literal)"} /\ Done) =>
        /\ result.status \notin UBOutcome
        /\ result.status = "ok" =>
              \E n \in 0..Len(call.args[1]) :
                  Holds(result.value, TitleN,
                        <<ESC, CharCode["]"], CharCode["2"], CharCode[";"]>>
                        \o SubSeq(call.args[1], 1, n) \o <<BEL>>)

\* a string starts with '#' and has 4 or 7 characters
HexShaped(hex) == Len(hex) \in {4, 7} /\ hex[1] = CharCode["#"]

HexCallOps == {"Color24(literal)", "Color24(string_view)", "_fg/_bg"}

\* C5 as stated: a hex string that does not start with '#' or whose length
\* is neither 4 nor 7 ends in an assertion failure and never yields a color.
C5_MalformedHexAsserts ==
    (call.op \in HexCallOps /\ Done /\ ~HexShaped(call.args[1])) =>
        result.status = "assert_failed"

\* C6: Color24(R, G, B) holds exactly ESC [ 38|48 ; 2 ; R ; G ; B m, each
\* channel in decimal without leading zeros, followed by a NUL inside the
\* 32-byte buffer, and to_view() returns exactly those bytes.
C6_Color24Bytes ==
    (call.op = "Color24" /\ Done) =>
        LET seq == Sequence24(call.t, call.args[1], call.args[2], call.args[3])
        IN  /\ result.status = "ok"
            /\ Holds(result.value, 32, seq)
            /\ to_view(result.value) = seq

\* bg24(255, 0, 10) is ESC [ 4 8 ; 2 ; 2 5 5 ; 0 ; 1 0 m
C6_Witness ==
    /\ call = Call("Color24", background, <<255, 0, 10>>)
    /\ result.status = "ok"
    /\ to_view(result.value) =
          <<27, 91, 52, 56, 59, 50, 59, 50, 53, 53, 59, 48, 59, 49, 48, 109>>

\* C7: Color8(idx) and Color8::at(idx) hold exactly ESC [ 38|48 ; 5 ; idx m,
\* idx in decimal without leading zeros: the table entry selected at idx is
\* the sequence that formatting idx on demand gives.
C7_Color8Bytes ==
    (call.op \in {"Color8", "Color8::at"} /\ Done) =>
        /\ result.status = "ok"
        /\ Holds(result.value, 16, Sequence8(call.t, call.args[1]))
        /\ to_view(result.value) = Sequence8(call.t, call.args[1])
        /\ result.value = Color8_gen_ansi(call.t, call.args[1])

\* fg8::at(255) is ESC [ 3 8 ; 5 ; 2 5 5 m
C7_Witness ==
    /\ call = Call("Color8::at", foreground, <<255>>)
    /\ result.status = "ok"
    /\ to_view(result.value) = <<27, 91, 51, 56, 59, 53, 59, 50, 53, 53, 109>>

\* the SGR code of the named color c (black 0 .. white 7)
NamedCode(t, bright, c) ==
    CASE t = foreground /\ ~bright -> 30 + c
      [] t = foreground /\ bright -> 90 + c
      [] t = background /\ ~bright -> 40 + c
      [] t = background /\ bright -> 100 + c

\* C8: the named 4-bit color c in 0..7 is ESC [ code m with code 30+c (text),
\* 90+c (bright text), 40+c (fill), 100+c (bright fill); preset is 39 (text)
\* and 49 (fill); red is 31, 91, 41 and 101.
C8_Color4Codes ==
    /\ (call.op = "Color4" /\ Done) =>
          /\ result.status = "ok"
          /\ to_view(result.value) =
                SequenceCode(NamedCode(call.t, call.args[1], call.args[2]))
          /\ (Color4Names[call.args[2] + 1] = "red") =>
                to_view(result.value) =
                    SequenceCode(CASE call.t = foreground /\ ~call.args[1] -> 31
                                   [] call.t = foreground /\ call.args[1] -> 91
                                   [] call.t = background /\ ~call.args[1] -> 41
                                   [] call.t = background /\ call.args[1] -> 101)
    /\ (call.op = "Color4::preset" /\ Done) =>
          /\ result.status = "ok"
          /\ to_view(result.value) =
                SequenceCode(IF call.t = foreground THEN 39 ELSE 49)

\* bg4::bright_red is ESC [ 1 0 1 m
C8_Witness ==
    /\ call = Call("Color4", background, <<TRUE, 1>>)
    /\ result.status = "ok"
    /\ to_view(result.value) = <<27, 91, 49, 48, 49, 109>>

\* the value of a hex digit, read off the digit's place among 0-9, a-f / A-F
HexLower == <<"0", "1", "2", "3", "4", "5", "6", "7", "8", "9", "a", "b", "c", "d", "e", "f">>
HexUpper == <<"0", "1", "2", "3", "4", "5", "6", "7", "8", "9", "A", "B", "C", "D", "E", "F">>
IsHexDigit(c) ==
    \E i \in 1..16 : c = CharCode[HexLower[i]] \/ c = CharCode[HexUpper[i]]
HexValue(c) ==
    (CHOOSE i \in 1..16 : c = CharCode[HexLower[i]] \/ c = CharCode[HexUpper[i]]) - 1

WellFormedHex(hex) ==
    HexShaped(hex) /\ \A i \in 2..Len(hex) : IsHexDigit(hex[i])

\* "#RGB" with each digit doubled
Doubled(hex) == <<hex[1], hex[2], hex[2], hex[3], hex[3], hex[4], hex[4]>>

\* C9: a well-formed hex string gives the literal that the three channel
\* values give directly: "#RRGGBB" with each channel 16*hi + lo, "#RGB" with
\* each channel d*17, digits 0-9, a-f and A-F alike; and "#RGB" gives what
\* "#RRGGBB" with each digit doubled gives.
C9_HexRoundTrip ==
    (call.op \in HexCallOps /\ Done /\ WellFormedHex(call.args[1])) =>
        LET hex == call.args[1]
            v(i) == HexValue(hex[i])
        IN  /\ result.status = "ok"
            /\ Len(hex) = 7 =>
                  result.value = Color24(call.t, 16 * v(2) + v(3), 16 * v(4) + v(5),
                                         16 * v(6) + v(7))
            /\ Len(hex) = 4 =>
                  /\ result.value = Color24(call.t, v(2) * 17, v(3) * 17, v(4) * 17)
                  /\ result.value =
                        Color24_parse(call.t, Doubled(hex), 7, NUL, ndebug).value

\* "#F00"_fg is fg24(255, 0, 0): ESC [ 3 8 ; 2 ; 2 5 5 ; 0 ; 0 m
C9_Witness ==
    /\ call = Call("_fg/_bg", foreground,
                   <<(<<CharCode["#"], CharCode["F"], CharCode["0"], CharCode["0"]>>)>>)
    /\ result.status = "ok"
    /\ result.value = Color24(foreground, 255, 0, 0)
    /\ to_view(result.value) = <<27, 91, 51, 56, 59, 50, 59, 50, 53, 53, 59, 48, 59, 48, 109>>

\* the value parse gives a character: its hex value, 0 when it is no hex digit
DigitOrZero(c) == IF IsHexDigit(c) THEN HexValue(c) ELSE 0

\* C11: parse on a string that starts with '#' and has 4 or 7 characters
\* never fails, whatever the other characters are: a character that is no
\* hex digit counts as the digit 0, no error is raised, and the valid 24-bit
\* sequence of the resulting channels is returned.
C11_NonHexReadAsZero ==
    (call.op \in HexCallOps /\ Done /\ HexShaped(call.args[1])) =>
        LET hex == call.args[1]
            v(i) == DigitOrZero(hex[i])
            R == IF Len(hex) = 7 THEN 16 * v(2) + v(3) ELSE 17 * v(2)
            G == IF Len(hex) = 7 THEN 16 * v(4) + v(5) ELSE 17 * v(3)
            B == IF Len(hex) = 7 THEN 16 * v(6) + v(7) ELSE 17 * v(4)
        IN  /\ result.status = "ok"
            /\ Holds(result.value, 32, Sequence24(call.t, R, G, B))
            /\ to_view(result.value) = Sequence24(call.t, R, G, B)

\* fg24(std::string_view("#GG0000")) is the sequence of "#000000",
\* ESC [ 3 8 ; 2 ; 0 ; 0 ; 0 m, in a build whose asserts are active
C11_Witness ==
    /\ ~ndebug
    /\ call = Call("Color24(string_view)", foreground,
                   <<(<<CharCode["#"], CharCode["G"], CharCode["G"], CharCode["0"],
                        CharCode["0"], CharCode["0"], CharCode["0"]>>)>>)
    /\ result.status = "ok"
    /\ to_view(result.value) = <<27, 91, 51, 56, 59, 50, 59, 48, 59, 48, 59, 48, 109>>

====
